---- MODULE Spec2Model ----
(***************************************************************************)
(* Model of the entity-component store of ecs-rs: the registry `Entities`  *)
(* (src/src/entities.rs) and the query engine `Query`                      *)
(* (src/src/entities/query.rs).                                            *)
(*                                                                         *)
(* Slot indices are 0-based as in the source; a Vec is a sequence, so the  *)
(* entry of slot i is the (i+1)-th element.  An Option is a sequence of    *)
(* length at most one: None is << >> and Some(v) is <<v>>.                  *)
(***************************************************************************)
EXTENDS Integers, Sequences, FiniteSets, TLC

\* ---------------------------------------------------------------- bounds
MaxSlots == 2          \* create_entity appends only while fewer slots exist
NumValues == 2         \* component payloads are 1..NumValues
MaxQueryTypes == 2
MaxCells == 3     \* Query::with_component calls per query

\* the component types the host program registers, and all the types it
\* names in calls ("C" is used but never registered)
RegTypes == {"A", "B"}
Types == RegTypes \cup {"C"}
Values == 1..NumValues
SlotIds == 0..MaxSlots \* ids passed by callers; MaxSlots is never a slot
ResTypes == {"R1", "R2", "R3"}  \* the resource types

None == << >>
Some(v) == <<v>>

\* ------------------------------------------------------------ u32 helpers
\* A u32 is the set of the positions of its set bits, a subset of
\* 0..(U32Bits - 1): the value is the sum of 2^n over its elements.
Zero == {}                                      \* the u32 0
BitAnd(a, b) == a \cap b                        \* a & b
BitOr(a, b) == a \cup b                         \* a | b
BitXor(a, b) == (a \ b) \cup (b \ a)            \* a ^ b

\* the width of a presence mask
U32Bits == 32

\* a faulty variant of Shl1: the bit position counted from one
Shl1Next(n) == {(n + 1) % U32Bits}

\* 1 << n on a u32 (shift amount taken modulo the width, as the wrapping
\* shift of an optimized build does)
Shl1(n) == {n % U32Bits}

\* ------------------------------------------------------------------ state
VARIABLES
    components,         \* Entities.components : registered type -> column
    bit_masks,          \* Entities.bit_masks  : registered type -> u32
    map,                \* Entities.map        : presence mask per slot
    first_empty_index,  \* Entities.first_empty_index (the cursor)
    query,              \* the Query borrowed from the registry, if alive
    result,             \* what the last Query::run returned
    ret,                \* the last Entities call and what it returned
    life,               \* history of each slot's logical entity
    data,               \* Resources.data : type -> boxed value
    res_ret,            \* the last Resources call and what it returned
    latest,             \* history: per type, the value last added or written
    cell,               \* the RefCells allocated by Rc::new, by address
    held                \* an Rc the caller kept from a QueryResult

resvars == <<data, res_ret, latest>>
refvars == <<cell, held>>
vars == <<components, bit_masks, map, first_empty_index, query, result, ret, life,
          data, res_ret, latest, cell, held>>

\* no Rc kept; of a kept Rc, addr is the cell it points to, and ty, slot
\* and overwritten record where it came from and whether an attach has
\* replaced that column entry since
NoHeld == [alive |-> FALSE, addr |-> 0, ty |-> "", slot |-> 0, overwritten |-> FALSE]

NoQuery == [alive |-> FALSE, map |-> Zero, type_ids |-> << >>]
NoResult == [st |-> "none", indices |-> << >>, columns |-> << >>]
PanicResult == [st |-> "panic", indices |-> << >>, columns |-> << >>]
Call(op, res) == [op |-> op, res |-> res]

NewLife == [has |-> {}, fresh |-> {}, deleted |-> FALSE, reused |-> FALSE]

\* a panic (unwrap of an Err/None, index out of bounds) ends the program
Aborted == ret.res = "panic"

\* a faulty variant of CanMutate: no borrow held by a live Query
CanMutateUnderQuery == ~Aborted

\* every Entities method takes &mut self: it cannot run while a Query
\* holds the shared borrow of the registry
CanMutate == ~Aborted /\ ~query.alive

Init ==
    /\ components = << >>
    /\ bit_masks = << >>
    /\ map = << >>
    /\ first_empty_index = 0
    /\ query = NoQuery
    /\ result = NoResult
    /\ ret = Call("default", "Ok")
    /\ life = << >>
    /\ data = << >>
    /\ res_ret = Call("default", None)
    /\ latest = [T \in ResTypes |-> None]
    /\ cell = << >>
    /\ held = NoHeld

\* ------------------------------------------------------------ Entities
\* HashMap::entry(k).or_insert(v)
OrInsert(m, k, v) ==
    IF k \in DOMAIN m THEN m
    ELSE [x \in DOMAIN m \cup {k} |-> IF x = k THEN v ELSE m[x]]

\* the column a newly registered type gets
NewColumn(n) == << >>

\* how the crate is compiled: with overflow checks or without
Builds == {"debug", "release"}

\* or_insert evaluates 1 << (components.len() - 1) before it looks the key
\* up; with overflow checks a shift by U32Bits or more panics, without
\* them the shift amount wraps
register_component(T) ==
    /\ CanMutate
    /\ components' = OrInsert(components, T, NewColumn(Len(map)))
    /\ \E build \in Builds :
          LET n == Cardinality(DOMAIN components') - 1 IN
          IF n >= U32Bits /\ build = "debug"
          THEN /\ bit_masks' = bit_masks
               /\ ret' = Call("register_component", "panic")
          ELSE /\ bit_masks' = OrInsert(bit_masks, T, Shl1(n))
               /\ ret' = Call("register_component", "Ok")
    /\ result' = NoResult
    /\ UNCHANGED <<map, first_empty_index, query>>

\* a faulty variant of FirstFree: the last free slot instead of the first
LastFree(m) ==
    IF \E i \in 1..Len(m) : m[i] = Zero
    THEN (CHOOSE i \in 1..Len(m) : m[i] = Zero /\ \A j \in (i + 1)..Len(m) : m[j] # Zero) - 1
    ELSE -1

\* map.iter().enumerate().find(|(_, mask)| **mask == 0): the 0-based
\* index of the first free slot, or -1 when there is none
FirstFree(m) ==
    IF \E i \in 1..Len(m) : m[i] = Zero
    THEN (CHOOSE i \in 1..Len(m) : m[i] = Zero /\ \A j \in 1..(i - 1) : m[j] # Zero) - 1
    ELSE -1

\* components.iter_mut().for_each(|(_, v)| v.push(None))
PushNone(cols) == [T \in DOMAIN cols |-> Append(cols[T], None)]

create_entity ==
    /\ CanMutate
    /\ LET free == FirstFree(map) IN
       IF free >= 0
       THEN /\ first_empty_index' = free
            /\ UNCHANGED <<components, map>>
       ELSE /\ Len(map) < MaxSlots
            /\ components' = PushNone(components)
            /\ map' = Append(map, Zero)
            /\ first_empty_index' = Len(map') - 1
    /\ ret' = Call("create_entity", "Ok")
    /\ result' = NoResult
    /\ UNCHANGED <<bit_masks, query>>

\* a faulty variant of Store: the value written to the first slot
StoreFirst(col, index, v) == [col EXCEPT ![1] = Some(v)]

\* column[index] = Some(Rc::new(RefCell::new(component)))
Store(col, index, v) == [col EXCEPT ![index + 1] = Some(v)]

\* map[index] |= bitmask
SetBits(m, index, bitmask) == [m EXCEPT ![index + 1] = BitOr(@, bitmask)]

with_component(T, v) ==
    /\ CanMutate
    /\ LET index == first_empty_index IN
       IF T \notin DOMAIN components
       THEN /\ ret' = Call("with_component", "ComponentNotRegistered")
            /\ UNCHANGED <<components, map>>
       ELSE IF index >= Len(components[T])
       THEN \* .ok_or(CreateComponentNeverCalled).unwrap() panics
            /\ ret' = Call("with_component", "panic")
            /\ UNCHANGED <<components, map>>
       ELSE IF index >= Len(map)
       THEN \* map.get_mut(index).unwrap() panics after the store
            /\ components' = [components EXCEPT ![T] = Store(@, index, v)]
            /\ ret' = Call("with_component", "panic")
            /\ UNCHANGED map
       ELSE /\ components' = [components EXCEPT ![T] = Store(@, index, v)]
            /\ map' = SetBits(map, index, bit_masks[T])
            /\ ret' = Call("with_component", "Ok")
    /\ result' = NoResult
    /\ UNCHANGED <<bit_masks, first_empty_index, query>>

\* a faulty variant of get_bitmask: a missing type read as the mask 0
get_bitmask_or_zero(T) == IF T \in DOMAIN bit_masks THEN Some(bit_masks[T]) ELSE Some(Zero)

\* HashMap::get(type_id).copied(): None is << >>
get_bitmask(T) == IF T \in DOMAIN bit_masks THEN Some(bit_masks[T]) ELSE None

\* a faulty variant of ToggleBits: the bit cleared, never set
ClearBits(m, id, mask) == [m EXCEPT ![id + 1] = @ \ mask]

\* map[id] ^= mask
ToggleBits(m, id, mask) == [m EXCEPT ![id + 1] = BitXor(@, mask)]

delete_component_by_entity_id(T, id) ==
    /\ CanMutate
    /\ IF T \notin DOMAIN bit_masks
       THEN /\ ret' = Call("delete_component_by_entity_id", "ComponentNotRegistered")
            /\ UNCHANGED map
       ELSE IF id >= Len(map)
       THEN \* self.map[id] indexes out of bounds
            /\ ret' = Call("delete_component_by_entity_id", "panic")
            /\ UNCHANGED map
       ELSE /\ map' = ToggleBits(map, id, bit_masks[T])
            /\ ret' = Call("delete_component_by_entity_id", "Ok")
    /\ result' = NoResult
    /\ UNCHANGED <<components, bit_masks, first_empty_index, query>>

add_component_by_entity_id(id, T, v) ==
    /\ CanMutate
    /\ IF T \notin DOMAIN bit_masks
       THEN /\ ret' = Call("add_component_by_entity_id", "ComponentNotRegistered")
            /\ UNCHANGED <<components, map>>
       ELSE IF id >= Len(components[T])
       THEN \* components[id] indexes out of bounds
            /\ ret' = Call("add_component_by_entity_id", "panic")
            /\ UNCHANGED <<components, map>>
       ELSE IF id >= Len(map)
       THEN \* self.map[id] indexes out of bounds after the store
            /\ components' = [components EXCEPT ![T] = Store(@, id, v)]
            /\ ret' = Call("add_component_by_entity_id", "panic")
            /\ UNCHANGED map
       ELSE /\ components' = [components EXCEPT ![T] = Store(@, id, v)]
            /\ map' = SetBits(map, id, bit_masks[T])
            /\ ret' = Call("add_component_by_entity_id", "Ok")
    /\ result' = NoResult
    /\ UNCHANGED <<bit_masks, first_empty_index, query>>

\* a faulty variant of ClearMask: every slot's mask zeroed
ClearAllMasks(m, id) == [i \in 1..Len(m) |-> Zero]

\* *entity = 0
ClearMask(m, id) == [m EXCEPT ![id + 1] = Zero]

delete_by_id(id) ==
    /\ CanMutate
    /\ IF id >= Len(map)
       THEN /\ ret' = Call("delete_by_id", "EntityDoesNotExist")
            /\ UNCHANGED map
       ELSE /\ map' = ClearMask(map, id)
            /\ ret' = Call("delete_by_id", "Ok")
    /\ result' = NoResult
    /\ UNCHANGED <<components, bit_masks, first_empty_index, query>>

\* ---------------------------------------------------------------- Query
\* Query::new: map 0, no type ids
NewQuery == [alive |-> TRUE, map |-> Zero, type_ids |-> << >>]

\* one Query at a time borrows the registry
Query_new ==
    /\ ~Aborted
    /\ ~query.alive
    /\ query' = NewQuery
    /\ ret' = Call("Query::new", "Ok")
    /\ result' = NoResult
    /\ UNCHANGED <<components, bit_masks, map, first_empty_index>>

\* self.map |= bitmask; self.type_ids.push(type_id)
QueryWith(q, T) ==
    [q EXCEPT !.map = BitOr(@, get_bitmask(T)[1]), !.type_ids = Append(@, T)]

Query_with_component(T) ==
    /\ ~Aborted
    /\ query.alive
    /\ get_bitmask(T) # None => Len(query.type_ids) < MaxQueryTypes
    /\ IF get_bitmask(T) = None
       THEN /\ ret' = Call("Query::with_component", "ComponentNotRegistered")
            /\ UNCHANGED query
       ELSE /\ query' = QueryWith(query, T)
            /\ ret' = Call("Query::with_component", "Ok")
    /\ result' = NoResult
    /\ UNCHANGED <<components, bit_masks, map, first_empty_index>>

\* a faulty variant of Matches: an exact-match test in place of the superset test
MatchesExact(entity_map, qmap) == entity_map = qmap

\* entity_map & self.map == self.map
Matches(entity_map, qmap) == BitAnd(entity_map, qmap) = qmap

\* the filter_map over map.iter().enumerate(), collected
RECURSIVE IndicesFrom(_, _, _)
IndicesFrom(m, qmap, i) ==
    IF i >= Len(m) THEN << >>
    ELSE (IF Matches(m[i + 1], qmap) THEN <<i>> ELSE << >>) \o IndicesFrom(m, qmap, i + 1)

Indices(m, qmap) == IndicesFrom(m, qmap, 0)

\* components[index].as_ref().unwrap() succeeds
CanGather(col, indices) ==
    \A k \in 1..Len(indices) : indices[k] < Len(col) /\ col[indices[k] + 1] # None

\* a faulty variant of Gather: the values gathered in descending slot order
GatherReversed(col, indices) ==
    [k \in 1..Len(indices) |-> col[indices[Len(indices) + 1 - k] + 1][1]]

\* indices.iter().map(|&index| components[index].as_ref().unwrap().clone())
Gather(col, indices) == [k \in 1..Len(indices) |-> col[indices[k] + 1][1]]

\* the value run() returns on the registry (cols, m), or the panic it ends in
RunOn(cols, m, q) ==
    LET indices == Indices(m, q.map) IN
    IF \A j \in 1..Len(q.type_ids) : CanGather(cols[q.type_ids[j]], indices)
    THEN [st |-> "ok", indices |-> indices,
          columns |-> [j \in 1..Len(q.type_ids) |->
                          Gather(cols[q.type_ids[j]], indices)]]
    ELSE PanicResult

RunResult(q) == RunOn(components, map, q)

\* a faulty variant of Query_run: running resets the builder
Query_run_consuming ==
    /\ ~Aborted
    /\ query.alive
    /\ result' = RunResult(query)
    /\ ret' = Call("Query::run", IF result'.st = "panic" THEN "panic" ELSE "Ok")
    /\ query' = NewQuery
    /\ UNCHANGED <<components, bit_masks, map, first_empty_index>>

Query_run ==
    /\ ~Aborted
    /\ query.alive
    /\ result' = RunResult(query)
    /\ ret' = Call("Query::run", IF result'.st = "panic" THEN "panic" ELSE "Ok")
    /\ UNCHANGED <<components, bit_masks, map, first_empty_index, query>>

\* the Query goes out of scope and the borrow of the registry ends
Query_drop ==
    /\ ~Aborted
    /\ query.alive
    /\ query' = NoQuery
    /\ ret' = Call("drop", "Ok")
    /\ result' = NoResult
    /\ UNCHANGED <<components, bit_masks, map, first_empty_index>>

\* ------------------------------------------------------------ Resources
\* Box::new(data), stored under data.type_id()
Box(T, v) == [type_id |-> T, value |-> v]

\* <dyn Any>::downcast_ref::<T>() / downcast_mut::<T>()
Downcast(box, T) == IF box.type_id = T THEN Some(box.value) ELSE None

\* a faulty variant of Insert: the first value of a type wins
InsertIfAbsent(m, k, v) ==
    IF k \in DOMAIN m THEN m
    ELSE [x \in DOMAIN m \cup {k} |-> IF x = k THEN v ELSE m[x]]

\* HashMap::insert(k, v): the last value of a key wins
Insert(m, k, v) == [x \in DOMAIN m \cup {k} |-> IF x = k THEN v ELSE m[x]]

\* HashMap::remove(k)
Remove(m, k) == [x \in DOMAIN m \ {k} |-> m[x]]

\* Resources::get_ref::<T>()
get_ref(T) == IF T \in DOMAIN data THEN Downcast(data[T], T) ELSE None

\* World::add_resource -> Resources::add
add_resource(T, v) ==
    /\ CanMutate
    /\ data' = Insert(data, T, Box(T, v))
    /\ res_ret' = Call("add_resource", None)

\* World::get_resource -> Resources::get_ref
get_resource(T) ==
    /\ ~Aborted
    /\ res_ret' = Call("get_resource", get_ref(T))
    /\ UNCHANGED data

\* World::get_resource_mut -> Resources::get_mut, and the caller's write of
\* v through the returned &mut T
get_resource_mut(T, v) ==
    /\ CanMutate
    /\ IF T \in DOMAIN data /\ Downcast(data[T], T) # None
       THEN /\ data' = [data EXCEPT ![T].value = v]
            /\ res_ret' = Call("get_resource_mut", Some(v))
       ELSE /\ UNCHANGED data
            /\ res_ret' = Call("get_resource_mut", None)

\* World::remove_resource -> Resources::remove: the Box comes back
remove_resource(T) ==
    /\ CanMutate
    /\ data' = Remove(data, T)
    /\ res_ret' = Call("remove_resource",
                       IF T \in DOMAIN data THEN Some(data[T]) ELSE None)

\* ------------------------------------------------------- specification
\* the registry and its queries
Next ==
    \/ \E T \in RegTypes : register_component(T) /\ UNCHANGED <<life, resvars, refvars>>
    \/ create_entity /\ UNCHANGED <<life, resvars, refvars>>
    \/ \E T \in Types, v \in Values : with_component(T, v) /\ UNCHANGED <<life, resvars, refvars>>
    \/ \E T \in Types, id \in SlotIds :
          delete_component_by_entity_id(T, id) /\ UNCHANGED <<life, resvars, refvars>>
    \/ \E T \in Types, id \in SlotIds, v \in Values :
          add_component_by_entity_id(id, T, v) /\ UNCHANGED <<life, resvars, refvars>>
    \/ \E id \in SlotIds : delete_by_id(id) /\ UNCHANGED <<life, resvars, refvars>>
    \/ Query_new /\ UNCHANGED <<life, resvars, refvars>>
    \/ \E T \in Types : Query_with_component(T) /\ UNCHANGED <<life, resvars, refvars>>
    \/ Query_run /\ UNCHANGED <<life, resvars, refvars>>
    \/ Query_drop /\ UNCHANGED <<life, resvars, refvars>>

Spec == Init /\ [][Next]_vars

\* ---------------------------------------------------------- claims
Slots == 0..(Len(map) - 1)
HasBit(mask, bit) == BitAnd(mask, bit) = bit /\ bit # Zero

\* C1: in every reachable state the presence-mask sequence and every
\* registered type's column have the same length.
C1_ColumnsMatchMap ==
    \A T \in DOMAIN components : Len(components[T]) = Len(map)

\* C2: in every reachable state, if T's bit is set in the presence mask of
\* slot s, then T's column has an entry at index s and it holds a value.
C2_BitImpliesValue ==
    \A s \in Slots, T \in DOMAIN bit_masks :
        HasBit(map[s + 1], bit_masks[T]) =>
            /\ s < Len(components[T])
            /\ components[T][s + 1] # None

\* C3: the index list run() returns is exactly the slots whose presence
\* mask contains every required bit, in strictly ascending order, none
\* omitted or repeated; slots with further bits are included.
C3_IndicesExact ==
    result.st = "ok" =>
        LET ix == result.indices IN
        /\ \A k \in 1..Len(ix) :
              ix[k] \in Slots /\ BitAnd(map[ix[k] + 1], query.map) = query.map
        /\ \A s \in Slots :
              BitAnd(map[s + 1], query.map) = query.map => \E k \in 1..Len(ix) : ix[k] = s
        /\ \A k \in 1..(Len(ix) - 1) : ix[k] < ix[k + 1]

\* a query for one type returned a slot that carries a further type too,
\* and left another slot out
C3_Witness ==
    /\ result.st = "ok"
    /\ query.map # Zero
    /\ Len(result.indices) < Len(map)
    /\ \E k \in 1..Len(result.indices) : map[result.indices[k] + 1] # query.map

\* C4: run() returns one column per with_component call, in call order;
\* every column is as long as the index list, and the k-th element of the
\* column for T is the value stored in T's column at slot indices[k].
C4_CoIndexed ==
    result.st = "ok" =>
        /\ Len(result.columns) = Len(query.type_ids)
        /\ \A j \in 1..Len(query.type_ids) :
              /\ Len(result.columns[j]) = Len(result.indices)
              /\ \A k \in 1..Len(result.indices) :
                    components[query.type_ids[j]][result.indices[k] + 1]
                        = Some(result.columns[j][k])

\* a type required twice gave two columns over two slots with different values
C4_Witness ==
    /\ result.st = "ok"
    /\ Len(query.type_ids) = 2
    /\ query.type_ids[1] = query.type_ids[2]
    /\ Len(result.indices) = 2
    /\ result.columns[1][1] # result.columns[1][2]

C7_CreateEntity ==
    [][create_entity =>
         IF \E s \in Slots : map[s + 1] = Zero
         THEN /\ map' = map
              /\ components' = components
              /\ first_empty_index' \in Slots
              /\ map[first_empty_index' + 1] = Zero
              /\ \A s \in Slots : s < first_empty_index' => map[s + 1] # Zero
         ELSE /\ map' = Append(map, Zero)
              /\ DOMAIN components' = DOMAIN components
              /\ \A T \in DOMAIN components :
                    components'[T] = Append(components[T], None)
              /\ first_empty_index' = Len(map') - 1
      ]_vars

\* create_entity reused slot 0, which still holds a value, while slot 1 is
\* free too
C7_Witness ==
    /\ ret.op = "create_entity"
    /\ Len(map) = 2
    /\ map[1] = Zero
    /\ map[2] = Zero
    /\ first_empty_index = 0
    /\ \E T \in DOMAIN components : Len(components[T]) > 0 /\ components[T][1] # None

\* C10: a successful attach of v of type T to slot s stores v at T's column
\* index s and ORs T's bit into the mask of s, changes nothing else, and
\* the query requiring only T that follows it returns s with v.
C10_Attach ==
    [][\A T \in Types, v \in Values, s \in SlotIds :
         (/\ \/ s = first_empty_index /\ with_component(T, v)
             \/ add_component_by_entity_id(s, T, v)
          /\ ret'.res = "Ok")
         => /\ components'[T][s + 1] = Some(v)
            /\ map'[s + 1] = BitOr(map[s + 1], bit_masks[T])
            /\ Len(map') = Len(map)
            /\ \A u \in Slots \ {s} : map'[u + 1] = map[u + 1]
            /\ \A U \in DOMAIN components \ {T} : components'[U] = components[U]
            /\ Len(components'[T]) = Len(components[T])
            /\ \A u \in 0..(Len(components[T]) - 1) :
                  u # s => components'[T][u + 1] = components[T][u + 1]
            /\ LET r == RunOn(components', map', QueryWith(NewQuery, T)') IN
               /\ r.st = "ok"
               /\ \E k \in 1..Len(r.indices) :
                     r.indices[k] = s /\ r.columns[1][k] = v
      ]_vars

\* the registry proper
registry == <<components, bit_masks, map, first_empty_index>>

\* C11: delete_component_by_entity_id::<T>(s), T registered and s in range,
\* flips exactly T's bit in the mask of s (clears it if set, sets it if
\* clear); every other bit, every other mask and all columns are unchanged.
C11_DetachToggles ==
    [][\A T \in Types, s \in SlotIds :
         (/\ delete_component_by_entity_id(T, s)
          /\ T \in DOMAIN bit_masks
          /\ s < Len(map))
         => /\ ret'.res = "Ok"
            /\ map'[s + 1] = IF bit_masks[T] \subseteq map[s + 1]
                             THEN map[s + 1] \ bit_masks[T]
                             ELSE map[s + 1] \cup bit_masks[T]
            /\ Len(map') = Len(map)
            /\ \A u \in Slots \ {s} : map'[u + 1] = map[u + 1]
            /\ UNCHANGED <<components, bit_masks, first_empty_index>>
      ]_vars

\* a detach set the bit of a type whose column holds no value at the slot
C11_Witness ==
    /\ ret = Call("delete_component_by_entity_id", "Ok")
    /\ \E s \in Slots, T \in DOMAIN bit_masks :
          /\ bit_masks[T] \subseteq map[s + 1]
          /\ s < Len(components[T])
          /\ components[T][s + 1] = None

\* C12: if slot s has a value v of type T attached, two consecutive
\* delete_component_by_entity_id::<T>(s) calls restore the registry exactly,
\* and a query requiring T then returns s with v.
C12_DoubleDetach ==
    [][\A T \in RegTypes, s \in SlotIds, v \in Values :
         (/\ delete_component_by_entity_id(T, s)
          /\ T \in DOMAIN bit_masks
          /\ s < Len(components[T])
          /\ components[T][s + 1] = Some(v)
          /\ bit_masks[T] \subseteq map[s + 1])
         => LET map2 == ToggleBits(map', s, bit_masks'[T]) IN
            /\ map2 = map
            /\ UNCHANGED <<components, bit_masks, first_empty_index>>
            /\ LET r == RunOn(components', map2, QueryWith(NewQuery, T)') IN
               /\ r.st = "ok"
               /\ \E k \in 1..Len(r.indices) :
                     r.indices[k] = s /\ r.columns[1][k] = v
      ]_vars

\* C13: delete_by_id(id) with id out of range returns EntityDoesNotExist
\* and changes nothing; otherwise it zeroes the mask of slot id and leaves
\* every other mask, the slot count and every column entry unchanged.
C13_DeleteById ==
    [][\A id \in SlotIds :
         delete_by_id(id) =>
            IF id >= Len(map)
            THEN /\ ret'.res = "EntityDoesNotExist"
                 /\ UNCHANGED <<registry, query>>
            ELSE /\ ret'.res = "Ok"
                 /\ map'[id + 1] = Zero
                 /\ Len(map') = Len(map)
                 /\ \A u \in Slots \ {id} : map'[u + 1] = map[u + 1]
                 /\ UNCHANGED <<components, bit_masks, first_empty_index>>
      ]_vars

\* delete_by_id zeroed the mask of slot 0, whose value stays stored, and
\* left the other slot's mask alone
C13_Witness ==
    /\ ret = Call("delete_by_id", "Ok")
    /\ Len(map) = 2
    /\ map[1] = Zero
    /\ map[2] # Zero
    /\ \E T \in DOMAIN components : Len(components[T]) > 0 /\ components[T][1] # None

\* C14: with_component, add_component_by_entity_id,
\* delete_component_by_entity_id and Query::with_component, called for a
\* type that is not registered, return ComponentNotRegistered for every
\* slot id, and leave the registry and the query unchanged.
C14_NotRegistered ==
    [][\A T \in Types : T \notin DOMAIN bit_masks =>
         \A id \in SlotIds, v \in Values :
            (\/ with_component(T, v)
             \/ add_component_by_entity_id(id, T, v)
             \/ delete_component_by_entity_id(T, id)
             \/ Query_with_component(T))
            => /\ ret'.res = "ComponentNotRegistered"
               /\ UNCHANGED <<registry, query>>
      ]_vars

\* a query that already requires a type was asked for an unregistered one
C14_Witness ==
    /\ ret = Call("Query::with_component", "ComponentNotRegistered")
    /\ query.alive
    /\ Len(query.type_ids) = 1
    /\ Len(map) > 0

\* C15: attaching a value of a registered type at a slot index where the
\* type's column has no entry returns CreateComponentNeverCalled and
\* changes nothing.
C15_MissingEntryIsAnError ==
    [][\A T \in RegTypes, id \in SlotIds, v \in Values :
         (/\ T \in DOMAIN bit_masks
          /\ \/ with_component(T, v) /\ first_empty_index >= Len(components[T])
             \/ add_component_by_entity_id(id, T, v) /\ id >= Len(components[T]))
         => /\ ret'.res = "CreateComponentNeverCalled"
            /\ UNCHANGED <<registry, query>>
      ]_vars

\* C16: no with_component call for a registered type finds the type's
\* column without an entry at the cursor slot.
C16_NeverMissingEntry ==
    ~(ret = Call("with_component", "panic"))

C19_NoMutationUnderQuery ==
    [][registry' # registry => ~query.alive /\ ~query'.alive]_vars

\* a Query is alive, over two slots, and has run
C19_Witness ==
    /\ query.alive
    /\ Len(map) = 2
    /\ result.st = "ok"

\* C21: for every reachable registry and every query whose with_component
\* calls all succeeded, run() returns a result: it never aborts on a
\* matching slot whose column entry is absent or whose column is too short.
C21_RunNeverAborts ==
    result.st # "panic"

\* C22: with_component always targets the slot selected by the most recent
\* create_entity: the cursor changes only in create_entity, a successful
\* with_component stores at the cursor and nowhere else, and right after
\* create_entity the cursor slot exists and its presence mask is 0.
C22_CursorTarget ==
    [][/\ first_empty_index' # first_empty_index => create_entity
       /\ create_entity =>
             /\ first_empty_index' < Len(map')
             /\ map'[first_empty_index' + 1] = Zero
       /\ \A T \in Types, v \in Values :
             (with_component(T, v) /\ ret'.res = "Ok") =>
                /\ first_empty_index < Len(map)
                /\ components' =
                      [components EXCEPT ![T][first_empty_index + 1] = Some(v)]
                /\ map' = [map EXCEPT ![first_empty_index + 1] = @ \cup bit_masks[T]]
      ]_vars

\* with_component stored at the cursor slot 1 although slot 0, freed since
\* the last create_entity, is the first free slot
C22_Witness ==
    /\ ret = Call("with_component", "Ok")
    /\ first_empty_index = 1
    /\ map[1] = Zero
    /\ map[2] # Zero

\* C24: delete_component_by_entity_id::<T>(id) and
\* add_component_by_entity_id(id, value), with T registered and id not an
\* existing slot index, return an error and leave the registry unchanged;
\* they never abort.
C24_OutOfRangeIsAnError ==
    [][\A T \in RegTypes, id \in SlotIds, v \in Values :
         (/\ T \in DOMAIN bit_masks
          /\ id >= Len(map)
          /\ \/ delete_component_by_entity_id(T, id)
             \/ add_component_by_entity_id(id, T, v))
         => /\ ret'.res \notin {"Ok", "panic"}
            /\ UNCHANGED <<registry, query>>
      ]_vars

\* ------------------------------------------------- logical entities
\* `life` records, per slot, the history the registry itself does not keep:
\*   has     the types attached to the slot since create_entity last
\*           allocated it and neither detached nor deleted since
\*   deleted delete_by_id succeeded on the slot and nothing was attached since
\*   reused  create_entity last allocated the slot while it was `deleted`
\*   fresh   for a reused slot, the types attached since that allocation
LifeCreate(l, m) ==
    LET free == FirstFree(m) IN
    IF free >= 0
    THEN [l EXCEPT ![free + 1] = [has |-> {}, fresh |-> {},
                                  deleted |-> @.deleted, reused |-> @.deleted]]
    ELSE Append(l, NewLife)

LifeAttach(l, index, T) ==
    [l EXCEPT ![index + 1] =
        [has |-> @.has \cup {T},
         fresh |-> IF @.reused THEN @.fresh \cup {T} ELSE {},
         deleted |-> FALSE, reused |-> @.reused]]

LifeDetach(l, id, T) == [l EXCEPT ![id + 1] = [@ EXCEPT !.has = @ \ {T}]]

LifeDelete(l, id) ==
    [l EXCEPT ![id + 1] = [has |-> {}, fresh |-> {}, deleted |-> TRUE, reused |-> FALSE]]

Done(l) == IF ret'.res = "Ok" THEN l ELSE life

\* payloads used when the history is tracked (the history, not the payload,
\* tells a stale value from a fresh one); the calls name the types of RegTypes
HistValues == {1}

\* the same operations, with the history of every slot recorded
NextHist ==
    \/ \E T \in RegTypes : register_component(T) /\ UNCHANGED <<life, resvars, refvars>>
    \/ create_entity /\ life' = LifeCreate(life, map)
          /\ UNCHANGED <<resvars, refvars>>
    \/ \E T \in RegTypes, v \in HistValues :
          with_component(T, v) /\ life' = Done(LifeAttach(life, first_empty_index, T))
          /\ UNCHANGED <<resvars, refvars>>
    \/ \E T \in RegTypes, id \in SlotIds :
          delete_component_by_entity_id(T, id) /\ life' = Done(LifeDetach(life, id, T))
          /\ UNCHANGED <<resvars, refvars>>
    \/ \E T \in RegTypes, id \in SlotIds, v \in HistValues :
          add_component_by_entity_id(id, T, v) /\ life' = Done(LifeAttach(life, id, T))
          /\ UNCHANGED <<resvars, refvars>>
    \/ \E id \in SlotIds : delete_by_id(id) /\ life' = Done(LifeDelete(life, id))
          /\ UNCHANGED <<resvars, refvars>>
    \/ Query_new /\ UNCHANGED <<life, resvars, refvars>>
    \/ \E T \in RegTypes : Query_with_component(T) /\ UNCHANGED <<life, resvars, refvars>>
    \/ Query_run /\ UNCHANGED <<life, resvars, refvars>>
    \/ Query_drop /\ UNCHANGED <<life, resvars, refvars>>

SpecHist == Init /\ [][NextHist]_vars

\* the types a query requires
Required == {query.type_ids[j] : j \in 1..Len(query.type_ids)}

\* C5: a query never returns a slot whose current logical entity lacks a
\* required type (the slot's entity has T iff T was attached since the
\* slot was last allocated and was not detached or deleted since).
C5_NoEntityLackingType ==
    result.st = "ok" =>
        \A k \in 1..Len(result.indices) :
            Required \subseteq life[result.indices[k] + 1].has

\* C8: after delete_by_id(id) succeeded and as long as nothing is attached
\* to slot id again, no query returns id (stated for the queries that
\* require at least one type).
C8_DeletedNotReturned ==
    (result.st = "ok" /\ Required # {}) =>
        \A k \in 1..Len(result.indices) : ~life[result.indices[k] + 1].deleted

\* C9: for a slot freed by delete_by_id, reused by create_entity and with
\* components attached since, every value a query returns for the slot
\* was attached after the reuse.
C9_NoStaleValue ==
    result.st = "ok" =>
        \A k \in 1..Len(result.indices) :
            LET l == life[result.indices[k] + 1] IN
            (l.reused /\ l.fresh # {}) => Required \subseteq l.fresh

\* ------------------------------------------------- the 32-type limit
\* Types are interchangeable, so the distinct types are registered in the
\* order 1, 2, ...; of the registered types, the first and the latest are
\* the ones registered again and attached.
SeqTypes == 1..(U32Bits + 1)
Registered == Cardinality(DOMAIN components)

NextReg ==
    \/ \E T \in SeqTypes :
          /\ T \in {1, Registered, Registered + 1}
          /\ register_component(T)
          /\ UNCHANGED <<life, resvars, refvars>>
    \/ create_entity /\ UNCHANGED <<life, resvars, refvars>>
    \/ \E T \in {1, U32Bits + 1} :
          with_component(T, 1) /\ UNCHANGED <<life, resvars, refvars>>

SpecReg == Init /\ [][NextReg]_vars

\* C17: every registered type has exactly one bit of the 32-bit mask, no
\* two registered types share a bit, and registering a 33rd distinct type
\* is rejected: it neither overflows the shift nor yields a colliding mask.
C17_OneBitPerTypeGuarded ==
    /\ \A T \in DOMAIN bit_masks :
          /\ Cardinality(bit_masks[T]) = 1
          /\ bit_masks[T] \subseteq 0..(U32Bits - 1)
    /\ \A T, U \in DOMAIN bit_masks : T # U => bit_masks[T] # bit_masks[U]
    /\ ret # Call("register_component", "panic")
    /\ Cardinality(DOMAIN bit_masks) <= U32Bits

\* ------------------------------------------------- the resource store
\* latest[T] follows the calls: an add sets it, a write through
\* get_resource_mut replaces a value that is there, a remove clears it
NextRes ==
    \/ \E T \in ResTypes, v \in Values :
          /\ add_resource(T, v)
          /\ latest' = [latest EXCEPT ![T] = Some(v)]
          /\ UNCHANGED <<registry, query, result, ret, life, refvars>>
    \/ \E T \in ResTypes :
          /\ get_resource(T)
          /\ UNCHANGED <<latest, registry, query, result, ret, life, refvars>>
    \/ \E T \in ResTypes, v \in Values :
          /\ get_resource_mut(T, v)
          /\ latest' = [latest EXCEPT ![T] = IF @ = None THEN None ELSE Some(v)]
          /\ UNCHANGED <<registry, query, result, ret, life, refvars>>
    \/ \E T \in ResTypes :
          /\ remove_resource(T)
          /\ latest' = [latest EXCEPT ![T] = None]
          /\ UNCHANGED <<registry, query, result, ret, life, refvars>>

SpecRes == Init /\ [][NextRes]_vars

\* C20: get_resource::<T>() returns the value of type T most recently
\* added (and since written through get_resource_mut), or None if none was
\* added since the last remove_resource::<T>(); remove_resource::<T>()
\* returns the stored value if present and None otherwise; an operation on
\* T never changes what is stored for another type.
C20_ResourceMap ==
    /\ [](\A T \in ResTypes : get_ref(T) = latest[T])
    /\ [][\A T \in ResTypes :
            /\ get_resource(T) => res_ret'.res = latest[T]
            /\ remove_resource(T) =>
                  res_ret'.res = IF latest[T] = None THEN None
                                 ELSE Some(Box(T, latest[T][1]))
            /\ (\E v \in Values : add_resource(T, v) \/ get_resource_mut(T, v))
               \/ get_resource(T) \/ remove_resource(T)
               => \A U \in ResTypes \ {T} : get_ref(U)' = get_ref(U)
         ]_vars

\* get_resource returned the value 2 of R1, last added or written, while
\* R2 holds its own value
C20_Witness ==
    /\ res_ret = Call("get_resource", Some(2))
    /\ get_ref("R1") = Some(2)
    /\ get_ref("R2") = Some(1)
    /\ latest["R1"] = Some(2)

\* ------------------------------------------------- shared component values
\* Here a column entry holds the address of its RefCell and cell maps the
\* address to the value: an attach passes the address Rc::new returns. A
\* freed cell is never handed out again while an Rc to it is alive, so
\* addresses are not reused.
RefTypes == {"A"}

\* a faulty variant of NewRc: the first cell handed out again
FirstRc(c) == 1

\* Rc::new(RefCell::new(component)): the address of a fresh cell
NewRc(c) == Len(c) + 1

\* the cells after a value was placed at address a
Placed(c, a, v) == [x \in DOMAIN c \cup {a} |-> IF x = a THEN v ELSE c[x]]

\* an attach replaced the entry of type T at slot s
Overwrite(h, T, s) ==
    IF h.alive /\ h.ty = T /\ h.slot = s THEN [h EXCEPT !.overwritten = TRUE] ELSE h

\* the caller clones the Rc at row k of column j of the QueryResult
Keep(j, k) ==
    /\ ~Aborted
    /\ result.st = "ok"
    /\ j \in 1..Len(result.columns)
    /\ k \in 1..Len(result.indices)
    /\ held' = [alive |-> TRUE, addr |-> result.columns[j][k],
                ty |-> query.type_ids[j], slot |-> result.indices[k],
                overwritten |-> FALSE]
    /\ UNCHANGED <<registry, query, result, ret, life, resvars, cell>>

\* the caller writes v through the kept Rc: *rc.borrow_mut() = v
Write(v) ==
    /\ ~Aborted
    /\ held.alive
    /\ cell' = [cell EXCEPT ![held.addr] = v]
    /\ UNCHANGED <<registry, query, result, ret, life, resvars, held>>

NextRef ==
    \/ \E T \in RefTypes : register_component(T) /\ UNCHANGED <<life, resvars, refvars>>
    \/ create_entity /\ UNCHANGED <<life, resvars, refvars>>
    \/ \E T \in RefTypes, v \in Values :
          /\ Len(cell) < MaxCells
          /\ with_component(T, NewRc(cell))
          /\ cell' = IF ret'.res = "Ok" THEN Placed(cell, NewRc(cell), v) ELSE cell
          /\ held' = IF ret'.res = "Ok" THEN Overwrite(held, T, first_empty_index) ELSE held
          /\ UNCHANGED <<life, resvars>>
    \/ \E T \in RefTypes, id \in SlotIds, v \in Values :
          /\ Len(cell) < MaxCells
          /\ add_component_by_entity_id(id, T, NewRc(cell))
          /\ cell' = IF ret'.res = "Ok" THEN Placed(cell, NewRc(cell), v) ELSE cell
          /\ held' = IF ret'.res = "Ok" THEN Overwrite(held, T, id) ELSE held
          /\ UNCHANGED <<life, resvars>>
    \/ \E id \in SlotIds : delete_by_id(id) /\ UNCHANGED <<life, resvars, refvars>>
    \/ Query_new /\ UNCHANGED <<life, resvars, refvars>>
    \/ \E T \in RefTypes : Query_with_component(T) /\ UNCHANGED <<life, resvars, refvars>>
    \/ Query_run /\ UNCHANGED <<life, resvars, refvars>>
    \/ Query_drop /\ UNCHANGED <<life, resvars, refvars>>
    \/ \E j \in 1..MaxQueryTypes, k \in 1..MaxSlots : Keep(j, k)
    \/ \E v \in Values : Write(v)

SpecRef == Init /\ [][NextRef]_vars

\* C23: an Rc returned by run() for slot s and type T is the registry's
\* own cell: as long as no attach has overwritten T at s, every later
\* query that returns s for T returns that cell, so a write through the Rc
\* is what the query shows; after an overwrite, later queries return
\* another cell, a write through the old Rc changes no value of the
\* registry, and no attach changes the value of an existing cell.
C23_SharedReference ==
    /\ [](held.alive /\ result.st = "ok" =>
            \A j \in 1..Len(result.columns), k \in 1..Len(result.indices) :
               (query.type_ids[j] = held.ty /\ result.indices[k] = held.slot) =>
                  IF held.overwritten
                  THEN result.columns[j][k] # held.addr
                  ELSE result.columns[j][k] = held.addr)
    /\ [][\A v \in Values : Write(v) =>
            IF held.overwritten
            THEN \A T \in DOMAIN components : \A i \in 1..Len(components[T]) :
                    components[T][i] # None =>
                       cell'[components[T][i][1]] = cell[components[T][i][1]]
            ELSE /\ components[held.ty][held.slot + 1] = Some(held.addr)
                 /\ cell'[held.addr] = v
         ]_vars
    /\ [][(cell' # cell /\ ~(\E v \in Values : Write(v))) =>
            \A a \in DOMAIN cell : cell'[a] = cell[a]
         ]_vars

\* after an overwrite a later query returns the new value for the slot
\* while the kept Rc denotes another, older value
C23_Witness ==
    /\ held.alive
    /\ held.overwritten
    /\ result.st = "ok"
    /\ Len(result.columns) = 1
    /\ \E k \in 1..Len(result.indices) :
          /\ result.indices[k] = held.slot
          /\ cell[result.columns[1][k]] # cell[held.addr]

====
